---- MODULE Spec2Model ----
(***************************************************************************)
(* Model of lib/log-parser.js: the tail subprocess supervisor, the chunk   *)
(* to line reassembly of the 'readable' handler, and parseLine with its    *)
(* regular expressions.  Text is modelled by TLA+ strings; a regular       *)
(* expression is modelled by an operator that decides the same language    *)
(* and yields the same captures as the JavaScript backtracking matcher.    *)
(***************************************************************************)
EXTENDS Integers, Sequences, FiniteSets, TLC

VARIABLES config, enabled, procs, calls, crashed, input, phase

vars == <<config, enabled, procs, calls, crashed, input, phase>>

-----------------------------------------------------------------------------
(* Strings *)

Ch(s, i) == IF i >= 1 /\ i <= Len(s) THEN SubSeq(s, i, i) ELSE ""

\* the least element of S, d when S is empty
FirstOr(S, d) == IF S = {} THEN d ELSE CHOOSE x \in S : \A y \in S : x <= y

\* lit occurs in s starting at position i
StartsAt(s, i, lit) ==
    /\ i >= 1
    /\ i + Len(lit) - 1 <= Len(s)
    /\ SubSeq(s, i, i + Len(lit) - 1) = lit

\* the suffix of s from position i
From(s, i) == SubSeq(s, i, Len(s))

\* position just after the longest run of characters of cs starting at i
\* (a greedy cs* at position i)
SkipRun(s, i, cs) == FirstOr({k \in i..Len(s) : Ch(s, k) \notin cs}, Len(s) + 1)

\* position just after the longest run of characters outside cs starting at i
SkipUntil(s, i, cs) == FirstOr({k \in i..Len(s) : Ch(s, k) \in cs}, Len(s) + 1)

\* \s of the regular expressions, over the characters the model uses
Space == {" ", "\t", "\n", "\r"}

\* characters the regular expression dot does not match
LineTerminator == {"\n", "\r"}

Digit == {"0", "1", "2", "3", "4", "5", "6", "7", "8", "9"}

DigitVal(c) ==
    CASE c = "0" -> 0 [] c = "1" -> 1 [] c = "2" -> 2 [] c = "3" -> 3
      [] c = "4" -> 4 [] c = "5" -> 5 [] c = "6" -> 6 [] c = "7" -> 7
      [] c = "8" -> 8 [] c = "9" -> 9

LowerOf ==
    [A |-> "a", B |-> "b", C |-> "c", D |-> "d", E |-> "e", F |-> "f",
     G |-> "g", H |-> "h", I |-> "i", J |-> "j", K |-> "k", L |-> "l",
     M |-> "m", N |-> "n", O |-> "o", P |-> "p", Q |-> "q", R |-> "r",
     S |-> "s", T |-> "t", U |-> "u", V |-> "v", W |-> "w", X |-> "x",
     Y |-> "y", Z |-> "z"]

LowerChar(c) == IF c \in DOMAIN LowerOf THEN LowerOf[c] ELSE c

\* the i flag of a regular expression: matching is done on the ASCII
\* lower-cased subject against the lower-case pattern
RECURSIVE Lower(_)
Lower(s) ==
    IF Len(s) <= 1 THEN LowerChar(s)
    ELSE Lower(SubSeq(s, 1, Len(s) \div 2)) \o Lower(SubSeq(s, Len(s) \div 2 + 1, Len(s)))

-----------------------------------------------------------------------------
(* REGEX_CLF *)
\*  ^(\S+) \S+ \S+ \[(.+?)\] "(\S+) (\S+) \S+" (\S+) (\S+)(?: "([^"]*)" "([^"]*)")?$
\* A greedy \S+ followed by a literal space is the whole run of non-space
\* characters, so the only choice the matcher has is where the lazy date
\* (.+?) ends: at the first  ] "  from which the rest of the line matches.

NoMatch ==
    [matched |-> FALSE, ip |-> "", date |-> "", method |-> "", url |-> "",
     status |-> "", bytes |-> "", hasReferrer |-> FALSE, referrer |-> "",
     useragent |-> ""]

NoPair == [ok |-> FALSE, some |-> FALSE, referrer |-> "", useragent |-> ""]

\* CLF_Pair without the $ at the end: text may follow the quoted pair
CLF_Pair_Unanchored(line, i, q1) ==
    IF StartsAt(line, q1, "\" \"") /\ SkipUntil(line, q1 + 3, {"\""}) <= Len(line)
    THEN [ok |-> TRUE, some |-> TRUE,
          referrer  |-> SubSeq(line, i + 2, q1 - 1),
          useragent |-> SubSeq(line, q1 + 3, SkipUntil(line, q1 + 3, {"\""}) - 1)]
    ELSE NoPair

\* "([^"]*)" "([^"]*)"$  with the first quote at i + 1 and the second at q1
CLF_Pair(line, i, q1) ==
    IF StartsAt(line, q1, "\" \"") /\ SkipUntil(line, q1 + 3, {"\""}) = Len(line)
    THEN [ok |-> TRUE, some |-> TRUE,
          referrer  |-> SubSeq(line, i + 2, q1 - 1),
          useragent |-> SubSeq(line, q1 + 3, Len(line) - 1)]
    ELSE NoPair

\* (?: "([^"]*)" "([^"]*)")?$  at position i, just after the bytes field:
\* nothing follows, or exactly the quoted pair
CLF_Quoted(line, i) ==
    IF i = Len(line) + 1
    THEN [ok |-> TRUE, some |-> FALSE, referrer |-> "", useragent |-> ""]
    ELSE IF StartsAt(line, i, " \"")
    THEN CLF_Pair(line, i, SkipUntil(line, i + 2, {"\""}))
    ELSE NoPair

\* the positions just after n successive runs of non-space characters, the
\* first starting at i and each next one character after the one before
RECURSIVE Runs(_, _, _)
RunsFrom(s, e, n) == <<e>> \o Runs(s, e + 1, n - 1)

Runs(s, i, n) == IF n = 0 THEN <<>> ELSE RunsFrom(s, SkipUntil(s, i, Space), n)

CLF_Captures(line, i, e, q) ==
    IF q.ok
    THEN [matched |-> TRUE, ip |-> "", date |-> "",
          method |-> SubSeq(line, i, e[1] - 1),
          url    |-> SubSeq(line, e[1] + 1, e[2] - 1),
          status |-> SubSeq(line, e[3] + 1, e[4] - 1),
          bytes  |-> SubSeq(line, e[4] + 1, e[5] - 1),
          hasReferrer |-> q.some, referrer |-> q.referrer,
          useragent |-> q.useragent]
    ELSE NoMatch

\* e: the ends of method, url, protocol with its quote, status and bytes
CLF_Fields(line, i, e) ==
    IF /\ e[1] > i /\ Ch(line, e[1]) = " "
       /\ e[2] > e[1] + 1 /\ Ch(line, e[2]) = " "
       /\ e[3] > e[2] + 2 /\ Ch(line, e[3] - 1) = "\"" /\ Ch(line, e[3]) = " "
       /\ e[4] > e[3] + 1 /\ Ch(line, e[4]) = " "
       /\ e[5] > e[4] + 1
    THEN CLF_Captures(line, i, e, CLF_Quoted(line, e[5]))
    ELSE NoMatch

\*  (\S+) (\S+) \S+" (\S+) (\S+)(?: "([^"]*)" "([^"]*)")?$  at position i
CLF_Request(line, i) == CLF_Fields(line, i, Runs(line, i, 5))

\* the date is line[d..k-1] with k the least position of a  ] "  after
\* which the rest matches (the lazy quantifier), 0 when there is none
CLF_DateEnd(line, d) ==
    FirstOr({k \in (d + 1)..Len(line) :
                /\ StartsAt(line, k, "] \"")
                /\ \A j \in d..(k - 1) : Ch(line, j) \notin LineTerminator
                /\ CLF_Request(line, k + 3).matched}, 0)

CLF_Lazy(line, e1, d, k) ==
    IF k = 0 THEN NoMatch
    ELSE [CLF_Request(line, k + 3) EXCEPT !.ip = SubSeq(line, 1, e1 - 1),
                                          !.date = SubSeq(line, d, k - 1)]

CLF_Date(line, e1, d) == CLF_Lazy(line, e1, d, CLF_DateEnd(line, d))

\* e: the ends of the three fields before the date
CLF_Head(line, e) ==
    IF /\ e[1] > 1 /\ Ch(line, e[1]) = " "
       /\ e[2] > e[1] + 1 /\ Ch(line, e[2]) = " "
       /\ e[3] > e[2] + 1 /\ StartsAt(line, e[3], " [")
    THEN CLF_Date(line, e[1], e[3] + 2)
    ELSE NoMatch

\* line.match(REGEX_CLF): the captures, or NoMatch
REGEX_CLF(line) == CLF_Head(line, Runs(line, 1, 3))

-----------------------------------------------------------------------------
(* The other regular expressions *)

\* at i, j:  /digits:digit  with the colon at j
DateColon(s, i, j) ==
    Ch(s, i) = "/" /\ j > i + 1 /\ Ch(s, j) = ":" /\ Ch(s, j + 1) \in Digit

DateReplace(s, j) == SubSeq(s, 1, j - 1) \o " " \o From(s, j + 1)

DateAt(s, i) == IF i = 0 THEN s ELSE DateReplace(s, SkipRun(s, i + 1, Digit))

\* s.replace(REGEX_DATE, '$1 $2'),  (\/\d+):(\d+) : the colon of the leftmost
\* /digits:digit  becomes a space
REGEX_DATE(s) ==
    DateAt(s, FirstOr({i \in 1..Len(s) : DateColon(s, i, SkipRun(s, i + 1, Digit))}, 0))

\* REGEX_EXTERNAL.test(s):  ^\/.+?\/.+?\/.+?\/.+  (the dot matches a slash too)
REGEX_EXTERNAL(s) ==
    /\ Ch(s, 1) = "/"
    /\ \E a \in 3..Len(s) : \E b \in (a + 2)..Len(s) : \E c \in (b + 2)..(Len(s) - 1) :
          /\ Ch(s, a) = "/" /\ Ch(s, b) = "/" /\ Ch(s, c) = "/"
          /\ \A j \in 2..(c + 1) : Ch(s, j) \notin LineTerminator

\* position after  ^https?:\/\/ , 0 when it is not there
AfterScheme(s) ==
    IF StartsAt(s, 1, "https://") THEN 9
    ELSE IF StartsAt(s, 1, "http://") THEN 8 ELSE 0

\* (?:0+:){n} at position i: the position after it, 0 when it does not match
RECURSIVE ZeroGroups(_, _, _)
ZeroGroup(s, i, n, j) ==
    IF j > i /\ Ch(s, j) = ":" THEN ZeroGroups(s, j + 1, n - 1) ELSE 0

ZeroGroups(s, i, n) == IF n = 0 THEN i ELSE ZeroGroup(s, i, n, SkipRun(s, i, {"0"}))

\*  \[(?:(?:0+:){7}|::)0*1(?:\/128)?\]  at position i: the position after it,
\* 0 when it does not match.  a: after the zero groups or the double colon;
\* o: the 1; m: the closing bracket.
IPv6End(s, m) == IF Ch(s, m) = "]" THEN m + 1 ELSE 0

IPv6One(s, o) ==
    IF Ch(s, o) = "1"
    THEN IPv6End(s, IF StartsAt(s, o + 1, "/128") THEN o + 5 ELSE o + 1)
    ELSE 0

IPv6Zeros(s, a) == IF a = 0 THEN 0 ELSE IPv6One(s, SkipRun(s, a, {"0"}))

AfterIPv6Loopback(s, i) ==
    IF Ch(s, i) = "["
    THEN IPv6Zeros(s, IF StartsAt(s, i + 1, "::") THEN i + 3 ELSE ZeroGroups(s, i + 1, 7))
    ELSE 0

\*  (?:localhost|127\.0\.0\.1|\[...\])  at position p
AfterLoopbackHost(l, p) ==
    IF p = 0 THEN 0
    ELSE IF StartsAt(l, p, "localhost") THEN p + 9
    ELSE IF StartsAt(l, p, "127.0.0.1") THEN p + 9
    ELSE AfterIPv6Loopback(l, p)

PortEnd(h, e) == IF e > h + 1 THEN e ELSE 0

\*  (?::\d+)?  at position h
AfterPort(l, h) ==
    IF h = 0 THEN 0
    ELSE IF Ch(l, h) = ":" THEN PortEnd(h, SkipRun(l, h + 1, Digit))
    ELSE h

SlashAt(l, q) == q > 0 /\ Ch(l, q) = "/"

\* REGEX_LOOOPBACK_URL.test(s)
REGEX_LOOOPBACK_URL(s) ==
    SlashAt(Lower(s), AfterPort(Lower(s), AfterLoopbackHost(Lower(s), AfterScheme(Lower(s)))))

\* REGEX_QUERY never matching: nothing is removed
REGEX_QUERY_Kept(s) == s

\* s.replace(REGEX_QUERY, ''),  \?.*$ : everything from the first ? is removed
REGEX_QUERY(s) == SubSeq(s, 1, SkipUntil(s, 1, {"?"}) - 1)

RawgitAt(l, p) ==
    /\ p > 0
    /\ \/ StartsAt(l, p, "rawgit.com/")
       \/ StartsAt(l, p, "rawgithub.com/")

\* REGEX_RAWGIT without the i flag
REGEX_RAWGIT_CaseSensitive(s) == RawgitAt(s, AfterScheme(s))

\* REGEX_RAWGIT.test(s):  ^https?:\/\/rawgit(?:hub)?\.com\/  with the i flag
REGEX_RAWGIT(s) == RawgitAt(Lower(s), AfterScheme(Lower(s)))

-----------------------------------------------------------------------------
(* parseInt(s, 10) || 0 *)

RECURSIVE DigitsVal(_, _)
DigitsVal(s, acc) ==
    IF s = "" THEN acc
    ELSE DigitsVal(From(s, 2), 10 * acc + DigitVal(Ch(s, 1)))

\* w: after the leading white space; d: after the sign; e: after the digits
ParseRun(s, w, d, e) ==
    IF e = d THEN [nan |-> TRUE, val |-> 0]
    ELSE [nan |-> FALSE,
          val |-> (IF Ch(s, w) = "-" THEN 0 - 1 ELSE 1) * DigitsVal(SubSeq(s, d, e - 1), 0)]

ParseSigned(s, w, d) == ParseRun(s, w, d, SkipRun(s, d, Digit))

ParseFrom(s, w) == ParseSigned(s, w, IF Ch(s, w) \in {"+", "-"} THEN w + 1 ELSE w)

\* parseInt(s, 10): leading white space, an optional sign, then the longest
\* run of digits; NaN when there is no digit
ParseInt(s) == ParseFrom(s, SkipRun(s, 1, Space))

\* n || 0
OrZero(n) == IF n.nan THEN 0 ELSE n.val

-----------------------------------------------------------------------------
(* parseLine *)

\* config.statsIgnorePaths: the keys of the configured ignore map
statsIgnorePaths == {"/user/repo/main/ignored.js"}

Dropped == [kind |-> "drop", path |-> "", referrer |-> "", size |-> 0, time |-> ""]

Thrown == [kind |-> "throw", path |-> "", referrer |-> "", size |-> 0, time |-> ""]

\* stats.logRequest(path, referrer, size, time); time is the argument
\* handed to Date.parse
logRequest(path, referrer, size, time) ==
    [kind |-> "call", path |-> path, referrer |-> referrer, size |-> size, time |-> time]

\* parseLine from the loopback test on
parseReferrer(matches, path, referrer) ==
    IF REGEX_LOOOPBACK_URL(referrer) THEN Dropped
    ELSE IF REGEX_RAWGIT(referrer) /\ ~REGEX_EXTERNAL(referrer) THEN Dropped
    ELSE logRequest(path, referrer, OrZero(ParseInt(matches.bytes)),
                    REGEX_DATE(matches.date))

\* parseLine from the path test on.  matches[7] is undefined when the
\* optional group took no part in the match, and undefined has no replace:
\* the call throws.
parsePath(matches, path) ==
    IF path \in statsIgnorePaths \/ ~REGEX_EXTERNAL(path) THEN Dropped
    ELSE IF ~matches.hasReferrer THEN Thrown
    ELSE parseReferrer(matches, path, REGEX_QUERY(matches.referrer))

\* parseMatches without the test of the status
parseMatches_No403(matches) ==
    IF ~matches.matched THEN Dropped
    ELSE parsePath(matches, REGEX_QUERY(matches.url))

\* parseLine after the match
parseMatches(matches) ==
    IF ~matches.matched THEN Dropped
    ELSE IF matches.status = "403" THEN Dropped
    ELSE parsePath(matches, REGEX_QUERY(matches.url))

\* What parseLine(line) does: returns without a call ("drop"), throws
\* ("throw"), or calls stats.logRequest ("call")
parseLine(line) == parseMatches(REGEX_CLF(line))

\* The loop of the 'readable' handler over lines, from the calls cs made so
\* far: the calls after it, the lines handed to parseLine, and whether a
\* line threw (the loop ends there: the error leaves the handler).
RECURSIVE RunLines(_, _, _)
RunLine(lines, cs, seen, r) ==
    IF r.kind = "throw"
    THEN [calls |-> cs, parsed |-> seen, threw |-> TRUE]
    ELSE RunLines(Tail(lines),
                  IF r.kind = "call"
                  THEN Append(cs, [path |-> r.path, referrer |-> r.referrer,
                                   size |-> r.size, time |-> r.time])
                  ELSE cs,
                  seen)

RunLines(lines, cs, seen) ==
    IF lines = <<>> THEN [calls |-> cs, parsed |-> seen, threw |-> FALSE]
    ELSE RunLine(lines, cs, Append(seen, Head(lines)), parseLine(Head(lines)))

-----------------------------------------------------------------------------
(* Log lines handed to parseLine *)

Ip == "1.2.3.4"
Date == "10/Oct/2020:13:55:36 -0700"
Agent == "UA"

\* a Common Log Format line and, with the quoted pair, a Combined one
PlainLine(url, status, bytes) ==
    Ip \o " - - [" \o Date \o "] \"GET " \o url \o " HTTP/1.1\" "
       \o status \o " " \o bytes

CombinedLine(url, status, bytes, referrer) ==
    PlainLine(url, status, bytes) \o " \"" \o referrer \o "\" \"" \o Agent \o "\""

Urls ==
    {"/user/repo/main/file.js?x=1", "/user/repo/main/file.js", "/favicon.ico",
     "/a///b/c", "/user/repo/main/ignored.js?v=2", "/user/repo?x=/a/b/c"}

Statuses == {"200", "403"}

Bytes == {"512", "-", "-5"}

Referrers ==
    {"https://example.com/page", "https://example.com/page?q=1", "-",
     "http://localhost:8080/x", "http://localhost", "http://localhost?x=1",
     "https://127.0.0.1/", "http://[::1]/a", "http://[0:0:0:0:0:0:0:1]:80/",
     "http://[0::1]/", "HTTP://LOCALHOST/",
     "https://rawgit.com/", "http://rawgithub.com/faq",
     "https://rawgit.com/user/repo/main/file.js",
     "HTTPS://RawGit.com/a/b?c=/d/e/f/g", "https://rawgit.com"}

\* lines outside the grammar
BadLines ==
    {"",
     "garbage",
     CombinedLine("/user/repo/main/file.js", "200", "512", "https://example.com/page")
        \o " extra",
     PlainLine("/user/repo/main/file.js", "200", "512") \o " \"https://example.com/page\"",
     Ip \o " - - [" \o Date \o "] \"GET /user/repo/main/file.js\" 200 512 \"-\" \"UA\"",
     Ip \o " - - " \o Date \o " \"GET /user/repo/main/file.js HTTP/1.1\" 200 512",
     Ip \o " - -  [" \o Date \o "] \"GET /user/repo/main/file.js HTTP/1.1\" 200 512",
     " " \o PlainLine("/user/repo/main/file.js", "200", "512")}

Inputs ==
    {[wellFormed |-> TRUE, combined |-> TRUE, url |-> u, status |-> s, bytes |-> b,
      referrer |-> r, line |-> CombinedLine(u, s, b, r)] :
        u \in Urls, s \in Statuses, b \in Bytes, r \in Referrers}
    \cup
    {[wellFormed |-> TRUE, combined |-> FALSE, url |-> u, status |-> s, bytes |-> b,
      referrer |-> "", line |-> PlainLine(u, s, b)] :
        u \in Urls, s \in Statuses, b \in Bytes}
    \cup
    {[wellFormed |-> FALSE, combined |-> FALSE, url |-> "", status |-> "", bytes |-> "",
      referrer |-> "", line |-> l] : l \in BadLines}

NoInput ==
    [wellFormed |-> FALSE, combined |-> FALSE, url |-> "", status |-> "", bytes |-> "",
     referrer |-> "", line |-> ""]

\* One line is handed to parseLine
InitLine ==
    /\ input \in Inputs
    /\ phase = "ready"
    /\ calls = <<>>
    /\ crashed = FALSE
    /\ enabled = TRUE
    /\ procs = <<>>
    /\ config = [upstreamRequestLog |-> "/access.log", upstreamRequestLogScrollback |-> 0]

ParseOne ==
    /\ phase = "ready"
    /\ \E r \in {RunLines(<<input.line>>, calls, <<>>)} :
          /\ calls' = r.calls
          /\ crashed' = r.threw
    /\ phase' = "done"
    /\ UNCHANGED <<config, enabled, procs, input>>

NextLine == ParseOne

SpecLine == InitLine /\ [][NextLine]_vars

-----------------------------------------------------------------------------
(* The supervisor: init, tail and the handlers tail installs *)

\* most tail subprocesses launched in a run
MaxSpawns == 3

\* s.split("\n")
RECURSIVE Split(_)
SplitAt(s, n) ==
    IF n > Len(s) THEN <<s>> ELSE <<SubSeq(s, 1, n - 1)>> \o Split(From(s, n + 1))

Split(s) == SplitAt(s, SkipUntil(s, 1, {"\n"}))

Front(q) == SubSeq(q, 1, Len(q) - 1)

Last(q) == q[Len(q)]

\* lines of the streams
LineA == CombinedLine("/user/repo/main/file.js?x=1", "200", "512", "https://example.com/page")
LineF == CombinedLine("/favicon.ico", "200", "512", "-")
LineP == PlainLine("/user/repo/main/file.js", "200", "512")

\* what a tail subprocess may write to its standard output
Texts ==
    {LineA \o "\n",
     LineF \o "\n" \o LineA \o "\n" \o "10.0.0.1 - -",
     "\n" \o LineA \o "\n\n",
     LineP \o "\n" \o LineA \o "\n",
     LineA}

\* the paths that exist (fs.existsSync)
ExistingPaths == {"/access.log"}

\* a configuration key that is not set
Undefined == 0 - 1

Configs ==
    [upstreamRequestLog : {"", "/missing.log", "/access.log"},
     upstreamRequestLogScrollback : {Undefined, 10}]

\* config.upstreamRequestLogScrollback || 0
ScrollbackOrZero(cfg) ==
    IF cfg.upstreamRequestLogScrollback = Undefined THEN 0
    ELSE cfg.upstreamRequestLogScrollback

\* tail with the respawn argument ignored: the backlog is asked for again
tail_ScrollbackKept(respawn, text, cfg) ==
    [scrollBack |-> ScrollbackOrZero(cfg),
     errored |-> FALSE, exited |-> FALSE, listening |-> TRUE, ended |-> FALSE,
     overflow |-> "", pending |-> text, received |-> "", parsed |-> <<>>]

\* The subprocess and the closure tail(logPath, respawn) creates.  pending
\* is what the subprocess has still to write; received and parsed record
\* the text read from the stream and the lines handed to parseLine.
tail(respawn, text, cfg) ==
    [scrollBack |-> IF respawn THEN 0 ELSE ScrollbackOrZero(cfg),
     errored |-> FALSE, exited |-> FALSE, listening |-> TRUE, ended |-> FALSE,
     overflow |-> "", pending |-> text, received |-> "", parsed |-> <<>>]

\* init without the test of the path
init_Unchecked(cfg, text) == [enabled |-> TRUE, procs |-> <<tail(FALSE, text, cfg)>>]

\* init(): the state after the module is loaded
init(cfg, text) ==
    IF cfg.upstreamRequestLog = "" \/ cfg.upstreamRequestLog \notin ExistingPaths
    THEN [enabled |-> FALSE, procs |-> <<>>]
    ELSE [enabled |-> TRUE, procs |-> <<tail(FALSE, text, cfg)>>]

Init ==
    /\ config \in Configs
    /\ \E text \in Texts : \E r \in {init(config, text)} :
          /\ enabled = r.enabled
          /\ procs = r.procs
    /\ calls = <<>>
    /\ crashed = FALSE
    /\ input = NoInput
    /\ phase = "idle"

\* The 'readable' listener with tailStream.read() returning chunk (the
\* string "null" when read() returns null): the closure after it, the calls
\* after it, and whether a line threw.
Handled(p, lines, r) ==
    [proc  |-> [p EXCEPT !.overflow = Last(lines), !.parsed = p.parsed \o r.parsed],
     calls |-> r.calls,
     threw |-> r.threw]

OnLines(p, lines, cs) == Handled(p, lines, RunLines(Front(lines), cs, <<>>))

OnReadable(p, chunk, cs) == OnLines(p, Split(p.overflow \o chunk), cs)

\* sizes of the next chunk: up to a line end, past it, into the date of a
\* line, or all that is left
Cuts(t) ==
    {k \in 1..Len(t) :
        \/ k = Len(t)
        \/ Ch(t, k) = "\n"
        \/ Ch(t, k + 1) = "\n"
        \/ Ch(t, k) = "["}

\* the subprocess after its stream handed over the next k characters
Read(p, k) ==
    [p EXCEPT !.pending = From(p.pending, k + 1),
              !.received = p.received \o SubSeq(p.pending, 1, k)]

\* 'readable' on the stream of subprocess i with k characters to read
Readable(i, k) ==
    /\ ~crashed
    /\ procs[i].listening /\ ~procs[i].ended
    /\ \E r \in {OnReadable(Read(procs[i], k), SubSeq(procs[i].pending, 1, k), calls)} :
          /\ procs' = [procs EXCEPT ![i] = r.proc]
          /\ calls' = r.calls
          /\ crashed' = r.threw
    /\ UNCHANGED <<config, enabled, input, phase>>

\* 'readable' at the end of the stream of subprocess i: read() returns null
ReadableEnd(i) ==
    /\ ~crashed
    /\ procs[i].listening /\ ~procs[i].ended /\ ~procs[i].errored
    /\ \E r \in {OnReadable([procs[i] EXCEPT !.ended = TRUE], "null", calls)} :
          /\ procs' = [procs EXCEPT ![i] = r.proc]
          /\ calls' = r.calls
          /\ crashed' = r.threw
    /\ UNCHANGED <<config, enabled, input, phase>>

\* 'error' on subprocess i: it could not be spawned
OnError(i) ==
    /\ ~crashed
    /\ ~procs[i].errored /\ ~procs[i].exited
    /\ procs[i].received = "" /\ ~procs[i].ended
    /\ procs' = [procs EXCEPT ![i].errored = TRUE, ![i].pending = ""]
    /\ enabled' = FALSE
    /\ UNCHANGED <<config, calls, crashed, input, phase>>

\* The stream of an exited subprocess after tailStream.removeAllListeners():
\* nothing listens to it, and what it delivered or still holds is dropped
\* from the state.  Its closure still holds its overflow, which nothing
\* reads any more.
Exited(p) ==
    [p EXCEPT !.exited = TRUE, !.listening = FALSE, !.pending = "",
              !.received = "", !.parsed = <<>>]

\* the closures of the subprocesses before the one that exits are garbage:
\* their overflow is dropped from the state
Collected(p) == [p EXCEPT !.overflow = ""]

\* the subprocesses after subprocess i has exited
Retired(ps, i) ==
    [j \in DOMAIN ps |-> IF j = i THEN Exited(ps[j]) ELSE Collected(ps[j])]

\* the exit handler without the call of tail
OnExit_NoRespawn(i) ==
    /\ ~crashed
    /\ ~procs[i].exited
    /\ Len(procs) < MaxSpawns
    /\ procs' = Retired(procs, i)
    /\ UNCHANGED <<config, enabled, calls, crashed, input, phase>>

\* overflow as a variable of the module, shared by every call of tail: the
\* next closure starts with what the last one held
OnExit_SharedOverflow(i) ==
    /\ ~crashed
    /\ ~procs[i].exited
    /\ Len(procs) < MaxSpawns
    /\ \E text \in Texts :
          procs' = Append(Retired(procs, i),
                          [tail(TRUE, text, config) EXCEPT !.overflow = procs[i].overflow])
    /\ UNCHANGED <<config, enabled, calls, crashed, input, phase>>

\* the exit handler without tailStream.removeAllListeners()
OnExit_ListenersKept(i) ==
    /\ ~crashed
    /\ ~procs[i].exited
    /\ Len(procs) < MaxSpawns
    /\ \E text \in Texts :
          procs' = Append([Retired(procs, i) EXCEPT ![i].listening = procs[i].listening],
                          tail(TRUE, text, config))
    /\ UNCHANGED <<config, enabled, calls, crashed, input, phase>>

\* 'exit' on subprocess i: the listeners of its stream are removed and
\* tail(logPath, true) launches the next one
OnExit(i) ==
    /\ ~crashed
    /\ ~procs[i].exited
    /\ Len(procs) < MaxSpawns
    /\ \E text \in Texts : procs' = Append(Retired(procs, i), tail(TRUE, text, config))
    /\ UNCHANGED <<config, enabled, calls, crashed, input, phase>>

Next ==
    \/ \E i \in DOMAIN procs : \E k \in Cuts(procs[i].pending) : Readable(i, k)
    \/ \E i \in DOMAIN procs : ReadableEnd(i)
    \/ \E i \in DOMAIN procs : OnError(i)
    \/ \E i \in DOMAIN procs : OnExit(i)

Spec == Init /\ [][Next]_vars

-----------------------------------------------------------------------------
(* The words of the properties, stated on the text itself *)

\* the line of SpecLine has been through parseLine
Done == phase = "done"

\* t is s cut at its first question mark
BeforeQuery(s, t) ==
    /\ Len(t) <= Len(s)
    /\ t = SubSeq(s, 1, Len(t))
    /\ \A j \in 1..Len(t) : Ch(t, j) # "?"
    /\ Len(t) = Len(s) \/ Ch(s, Len(t) + 1) = "?"

Stripped(s) == CHOOSE t \in {SubSeq(s, 1, n) : n \in 0..Len(s)} : BeforeQuery(s, t)

\* the number of non-empty segments of s between slashes
NonEmptySegments(s) ==
    Cardinality({j \in 1..Len(s) : Ch(s, j) # "/" /\ (j = 1 \/ Ch(s, j - 1) = "/")})

\* the part of a URL between the scheme and the path, and the path
Authority(url) ==
    SubSeq(url, AfterScheme(Lower(url)),
           SkipUntil(url, AfterScheme(Lower(url)), {"/", "?"}) - 1)

PathOf(url) == From(Stripped(url), SkipUntil(url, AfterScheme(Lower(url)), {"/", "?"}))

\* the host of an authority: without the port
HostOf(a) ==
    IF Ch(a, 1) = "[" THEN SubSeq(a, 1, SkipUntil(a, 1, {"]"}))
    ELSE SubSeq(a, 1, SkipUntil(a, 1, {":"}) - 1)

\* localhost, 127.0.0.1 and forms of the IPv6 address ::1
LoopbackHosts == {"localhost", "127.0.0.1", "[::1]", "[0:0:0:0:0:0:0:1]", "[0::1]"}

IsHttp(url) == AfterScheme(Lower(url)) > 0

LoopbackReferrer(url) == IsHttp(url) /\ HostOf(Lower(Authority(url))) \in LoopbackHosts

\* the referrer begins http(s)://rawgit.com/ or http(s)://rawgithub.com/
MirrorReferrer(url) ==
    /\ IsHttp(url)
    /\ Lower(Authority(url)) \in {"rawgit.com", "rawgithub.com"}
    /\ Ch(url, AfterScheme(Lower(url)) + Len(Authority(url))) = "/"

ShallowMirror(url) == MirrorReferrer(url) /\ NonEmptySegments(PathOf(url)) < 4

DeepMirror(url) == MirrorReferrer(url) /\ NonEmptySegments(PathOf(url)) >= 4

\* status, path: the first two rules pass
PassesPathRules(in) ==
    /\ in.wellFormed
    /\ in.status # "403"
    /\ Stripped(in.url) \notin statsIgnorePaths
    /\ NonEmptySegments(Stripped(in.url)) >= 4

\* the lines between the line feeds of text, without what follows the last
CompleteLines(text) ==
    LET feeds == {j \in 1..Len(text) : Ch(text, j) = "\n"}
        before(j) == Cardinality({f \in feeds : f < j})
        feed(n) == CHOOSE j \in feeds : before(j) = n - 1
    IN  [n \in 1..Cardinality(feeds) |->
            SubSeq(text, IF n = 1 THEN 1 ELSE feed(n - 1) + 1, feed(n) - 1)]

-----------------------------------------------------------------------------
(* Properties *)

\* C1: the lines a stream's 'readable' handler has handed to parseLine are
\* the complete lines of the text read from the stream so far, however the
\* text was cut into chunks.
C1_ChunkBoundaryIndependence ==
    \A i \in DOMAIN procs : procs[i].parsed = CompleteLines(procs[i].received)

\* C2: no line makes parseLine throw: no error leaves the 'readable' handler.
C2_NoErrorEscapes == ~crashed

\* C3: a request with a deep mirror referrer that passes the status and path
\* rules is forwarded.
C3_DeepMirrorForwarded ==
    (Done /\ input.combined /\ PassesPathRules(input) /\ DeepMirror(input.referrer))
        => Len(calls) = 1

\* C4: a request whose stripped path is ignored or has fewer than four
\* non-empty segments is never forwarded.
C4_ShallowPathNeverLogged ==
    (/\ Done
     /\ input.wellFormed
     /\ \/ Stripped(input.url) \in statsIgnorePaths
        \/ NonEmptySegments(Stripped(input.url)) < 4)
        => calls = <<>>

\* C5: a request whose referrer has a loopback host is never forwarded.
C5_LoopbackNeverLogged ==
    (Done /\ input.combined /\ LoopbackReferrer(input.referrer)) => calls = <<>>

\* C6: a request with status 403 is never forwarded.
C6_Status403NeverLogged ==
    (Done /\ input.wellFormed /\ input.status = "403") => calls = <<>>

C6_Witness ==
    /\ Done
    /\ input.line = CombinedLine("/user/repo/main/file.js?x=1", "403", "512",
                                 "https://example.com/page")
    /\ calls = <<>>

\* C7: a request whose referrer is a shallow page of the mirror domain is
\* never forwarded.
C7_ShallowMirrorNeverLogged ==
    (Done /\ input.combined /\ ShallowMirror(input.referrer)) => calls = <<>>

C7_Witness ==
    /\ Done
    /\ PassesPathRules(input)
    /\ input.referrer = "HTTPS://RawGit.com/a/b?c=/d/e/f/g"
    /\ calls = <<>>

C9_MalformedDropped ==
    (Done /\ ~input.wellFormed) => (calls = <<>> /\ ~crashed)

C9_Witness ==
    /\ Done
    /\ input.line = CombinedLine("/user/repo/main/file.js", "200", "512",
                                 "https://example.com/page") \o " extra"
    /\ calls = <<>>
    /\ ~crashed

\* C10: a request that passes the four rules is forwarded once, with the
\* stripped path, the stripped referrer and the parsed byte count.
C10_AcceptanceComplete ==
    (/\ Done
     /\ PassesPathRules(input)
     /\ ~LoopbackReferrer(input.referrer)
     /\ ~ShallowMirror(input.referrer))
        => /\ Len(calls) = 1
           /\ calls[1].path = Stripped(input.url)
           /\ calls[1].referrer = Stripped(input.referrer)
           /\ calls[1].size = OrZero(ParseInt(input.bytes))

\* C11: the first tail subprocess is launched with the configured scrollback
\* count, 0 when none is configured, and every later one with scrollback 0.
C11_ScrollbackOnFirstLaunchOnly ==
    \A i \in DOMAIN procs :
        procs[i].scrollBack =
            IF i > 1 \/ config.upstreamRequestLogScrollback = Undefined THEN 0
            ELSE config.upstreamRequestLogScrollback

C11_Witness ==
    /\ Len(procs) = 3
    /\ config.upstreamRequestLogScrollback = 10
    /\ procs[1].scrollBack = 10
    /\ procs[2].scrollBack = 0
    /\ procs[3].scrollBack = 0
    /\ procs[1].exited /\ procs[2].exited

\* C12: once a subprocess has emitted 'error', enabled is false and that
\* subprocess is the last one ever launched.
C12_NoRelaunchAfterSpawnFailure ==
    \A i \in DOMAIN procs : procs[i].errored => (~enabled /\ i = Len(procs))

\* subprocess i exits in this step
ExitStep(i) == ~procs[i].exited /\ procs'[i].exited

\* subprocess i delivers text in this step
DataStep(i) ==
    /\ procs'[i].exited = procs[i].exited
    /\ procs'[i].received # procs[i].received

\* the text subprocess i delivers in this step
Delivered(i) == From(procs'[i].received, Len(procs[i].received) + 1)

C14_OverflowNotReplayed ==
    \A i \in DOMAIN procs :
        ~procs[i].exited =>
            /\ (procs[i].received = "" /\ ~procs[i].ended) => procs[i].overflow = ""
            /\ Len(procs[i].parsed) <= Len(CompleteLines(procs[i].received))
            /\ \A n \in DOMAIN procs[i].parsed :
                  procs[i].parsed[n] = CompleteLines(procs[i].received)[n]

C14_Witness ==
    /\ Len(procs) = 2
    /\ procs[1].exited
    /\ procs[1].overflow = "10.0.0.1 - -"
    /\ ~procs[2].exited
    /\ procs[2].received = LineA \o "\n"
    /\ procs[2].parsed = <<LineA>>
    /\ procs[2].overflow = ""

\* C15: when the configured log path is unset or names no existing file,
\* enabled is false, no subprocess has been launched and nothing has been
\* forwarded, in every state.
C15_MissingPathDisables ==
    (config.upstreamRequestLog = "" \/ config.upstreamRequestLog \notin ExistingPaths)
        => (~enabled /\ procs = <<>> /\ calls = <<>>)

C15_Witness ==
    /\ config.upstreamRequestLog = "/missing.log"
    /\ ~enabled
    /\ procs = <<>>
    /\ calls = <<>>

\* C16: while enabled is false no subprocess output is consumed and nothing
\* is forwarded; enabled changes only from true to false, and only in a step
\* in which a subprocess emits 'error'.
C16_EnabledReportsActivity ==
    [][/\ ~enabled =>
            /\ calls' = calls
            /\ \A i \in DOMAIN procs : ~DataStep(i)
       /\ enabled' # enabled =>
            /\ enabled /\ ~enabled'
            /\ \E i \in DOMAIN procs : ~procs[i].errored /\ procs'[i].errored
    ]_vars

\* the number of line feeds of text
LineFeeds(text) == Cardinality({j \in 1..Len(text) : Ch(text, j) = "\n"})

\* C17: within one stream, the lines handed to parseLine are as many as the
\* line feeds received, the n-th of them is the text before the n-th line
\* feed, and what follows the last line feed has not been handed over, at
\* the end of the stream either.
C17_EachLineOnceInOrder ==
    \A i \in DOMAIN procs :
        ~procs[i].exited =>
            /\ Len(procs[i].parsed) = LineFeeds(procs[i].received)
            /\ \A n \in DOMAIN procs[i].parsed :
                  procs[i].parsed[n] = CompleteLines(procs[i].received)[n]

\* C18: the byte count of every call is an integer that is not negative.
C18_ByteCountNotNegative ==
    Done => \A n \in DOMAIN calls : calls[n].size \in Nat

\* what follows the last line feed of text
AfterLastFeed(text) ==
    From(text, 1 + Cardinality({j \in 1..Len(text) :
                                   \E k \in j..Len(text) : Ch(text, k) = "\n"}))

\* the stream of subprocess i ends in this step: read() returns null
NullReadStep(i) == ~procs[i].ended /\ procs'[i].ended

\* C19: a 'readable' for which read() returns null changes neither overflow
\* nor the lines handed to parseLine, and after every step the overflow of
\* a subprocess that has not exited is the text it delivered after its last
\* line feed.
C19_NullReadLeavesOverflow ==
    [][\A i \in DOMAIN procs :
          /\ NullReadStep(i) =>
                /\ procs'[i].overflow = procs[i].overflow
                /\ procs'[i].parsed = procs[i].parsed
          /\ ~procs'[i].exited =>
                procs'[i].overflow = AfterLastFeed(procs'[i].received)
    ]_vars

\* C20: at most one stream has a 'readable' listener, the stream of an
\* exited subprocess has none, and only the subprocess launched last hands
\* text or the end of its stream to the handler.
C20_OneStreamListening ==
    [][/\ Cardinality({i \in DOMAIN procs' : procs'[i].listening}) <= 1
       /\ \A i \in DOMAIN procs' : procs'[i].exited => ~procs'[i].listening
       /\ \A i \in DOMAIN procs :
              (DataStep(i) \/ NullReadStep(i)) => (~procs[i].exited /\ i = Len(procs))
    ]_vars

C20_Witness ==
    /\ Len(procs) = 3
    /\ procs[1].exited /\ procs[1].errored /\ ~procs[1].listening
    /\ procs[2].exited /\ procs[2].overflow = "10.0.0.1 - -" /\ ~procs[2].listening
    /\ procs[3].listening
    /\ procs[3].parsed = <<LineA>>
    /\ Len(calls) = 2

====
